---- MODULE Spec2Model ----
(***************************************************************************)
(* The V2 flight computer (src/Python/V2/main.py) with its two sensor      *)
(* drivers (adxl343.py, mpl3115a2.py), as a state machine.                 *)
(*                                                                         *)
(* One step of the model is one call of FlightComputer._initialize_sensors *)
(* or one iteration of the `while True` loop of FlightComputer.run         *)
(* (manage_state).  The I2C bus, the filesystem and the tick counter are   *)
(* the environment: the outcome of every bus transaction and file          *)
(* operation, and the time that passes before every read of the tick       *)
(* counter, are chosen nondeterministically; from one iteration to the     *)
(* next that time is at least the sleep of run.  update_led, which run     *)
(* calls after manage_state, changes only the LED pin and is left out.     *)
(*                                                                         *)
(* Time is scaled: the tick counter has TicksBits bits instead of 30 and   *)
(* the configured durations are a few ticks instead of thousands of        *)
(* milliseconds.  The comparisons and the modular arithmetic are those of  *)
(* the code.                                                               *)
(***************************************************************************)
EXTENDS Integers, Sequences, FiniteSets, TLC

\* ------------------------------------------------------------ scale
\* Width of the tick counter (MicroPython: 30).
TicksBits == 3
\* CONFIG["standby_duration_s"] * 1000, in model ticks.
standby_duration == 1
\* CONFIG["logging_duration_ms"], in model ticks.
logging_duration_ms == 2
\* CONFIG["log_interval_ms"], in model ticks.
log_interval_ms == 1
\* time.sleep_ms(10) of run, in model ticks: as in the code, the sleep of
\* an iteration is as long as the configured sample interval.
loop_delay_ms == 1
\* The most the code between two reads of the tick counter takes, the
\* sleep of run apart.
MaxStep == 1
\* File numbers that may exist before the run: flight_001 .. flight_MaxFiles.
MaxFiles == 1
\* The most calls counted on a driver used on its own: calls of
\* enable_motion_detection on the accelerometer, all calls on the altimeter.
MaxCalls == 2

\* ------------------------------------------------------------ constants
ADXL345_DEVICE_ID == 229
MPL3115A2_ID == 196
\* The altimeter's identity, mode-control and first data registers.
MPL3115A2_WHOAMI == 12
MPL3115A2_CTRL_REG1 == 38
MPL3115A2_OUT_P_MSB == 1
\* The byte _set_mode_altimeter writes to CTRL_REG1 (b'\xb9').
ModeAltimeter == 185
\* The activity bit of INT_ENABLE and INT_SOURCE.
ActivityBit == 16
\* The byte enable_motion_detection writes to register 0x27.
ActInactCtl == 112
\* The byte init writes to POWER_CTL.
MeasureMode == 8
\* The address of the INT_SOURCE register.
ADXL345_REG_INT_SOURCE == 48
\* The data logger's buffer size threshold, in rows.  CONFIG has no such
\* entry; the value is the smallest the description allows.
buffer_threshold == 1
\* CONFIG["motion_threshold"]
motion_threshold == 50

STATE_BOOT == "BOOT"
STATE_INIT_FAIL == "INIT_FAIL"
STATE_STANDBY == "STANDBY"
STATE_ARMED == "ARMED"
STATE_LOGGING == "LOGGING"
STATE_POST_FLIGHT == "POST_FLIGHT"
STATE_FAULT == "FAULT"

FlightStates ==
  {STATE_BOOT, STATE_INIT_FAIL, STATE_STANDBY, STATE_ARMED, STATE_LOGGING,
   STATE_POST_FLIGHT, STATE_FAULT}

TerminalStates == {STATE_POST_FLIGHT, STATE_INIT_FAIL, STATE_FAULT}

\* ------------------------------------------------------------ the clock
TicksPeriod == 2 ^ TicksBits
TicksHalf == TicksPeriod \div 2

\* The difference of two tick values by plain subtraction.
ticks_sub(a, b) == a - b

\* time.ticks_diff(a, b): the signed distance from b to a, in
\* [-TicksHalf, TicksHalf).
ticks_diff(a, b) == ((a - b + TicksHalf) % TicksPeriod) - TicksHalf

\* time.ticks_add(a, d)
ticks_add(a, d) == (a + d) % TicksPeriod

\* What the counter can advance by from one read of it to the next read
\* in the same iteration of run (or in _initialize_sensors).
Steps == 0 .. MaxStep

\* What the counter can advance by from the last read of it in one
\* iteration of run to the first read in a later one: the sleep of line 61
\* and the time the code between the reads takes.
LoopSteps == loop_delay_ms .. loop_delay_ms + MaxStep

\* Values of the tick counter at power-on: far from the wrap and just
\* before it.  (The time spent ARMED is free, so LOGGING starts at every
\* value of the counter.)
StartTicks == {0, TicksPeriod - 2}

\* ------------------------------------------------------------ the environment
\* Outcome of one bus transaction or file operation.
IoOutcome == {"ok", "OSError"}

\* Outcome of a register read: the byte read, or a failed transaction
\* (OSError), for which byte is 0.
Read(b) == [ok |-> TRUE, byte |-> b]
ReadFailed == [ok |-> FALSE, byte |-> 0]

\* Outcomes of an identity read: either device's identity, the byte of a
\* device of another kind, or a failed transaction.
IdReads == {Read(ADXL345_DEVICE_ID), Read(MPL3115A2_ID), Read(0), ReadFailed}

\* Outcomes of a read of INT_SOURCE.  131 = 0x83 has the activity bit
\* clear and others set, 147 = 0x93 has it set among others.
SourceReads == {Read(0), Read(ActivityBit), Read(131), Read(147), ReadFailed}

\* The files that may exist before the run.
FileNumbers == 1 .. MaxFiles

VARIABLES
  self,           \* the FlightComputer object
  accelerometer,  \* the ADXL343 object and the device's registers
  now,            \* the tick counter at its last read or ARMED poll
  files,          \* numbers n for which flight_n.csv exists
  log,            \* content of the file log_file was last opened on
  pc,             \* "boot", "loop", or "crashed" (an uncaught exception left run)
  obs             \* what the last step did and saw

vars == <<self, accelerometer, now, files, log, pc, obs>>

NoInitIo ==
  [alt_id |-> "none", alt_mode |-> "none", acc_id |-> "none",
   acc_power |-> "none", acc_int |-> "none"]

NoObs ==
  [branch |-> "none", current_time |-> 0, polled |-> "none",
   previous_polled |-> "none", motion |-> FALSE, prepare |-> "none",
   existing |-> {}, fired |-> FALSE, lag |-> 0, alt |-> "none",
   acc |-> "none", write |-> "none", close |-> "none", init |-> NoInitIo,
   previous_enter_time |-> 0]

\* ------------------------------------------------------------ FlightComputer
\* One entry of the history of state changes: the state entered and
\* whether log_file was set at that moment.
Entered(s, new_state) ==
  [state |-> new_state, file_open |-> s.log_file # "None"]

\* _change_state with the entry time left as it was.
ChangeStateKeepTime(s, new_state, t) ==
  IF s.state # new_state
    THEN [s EXCEPT !.state = new_state,
                   !.trail = Append(@, Entered(s, new_state))]
    ELSE s

\* _change_state(new_state), the tick counter reading t at line 68.  trail
\* is the history of the calls that changed the state.
ChangeState(s, new_state, t) ==
  IF s.state # new_state
    THEN [s EXCEPT !.state = new_state,
                   !.state_enter_time = t,
                   !.trail = Append(@, Entered(s, new_state))]
    ELSE s

\* ------------------------------------------------------------ MPL3115A2
\* MPL3115A2.init: the identity read `id`, then _set_mode_altimeter, whose
\* write `mode` fails silently (the OSError is caught and printed).
MPL3115A2_init(id, mode) ==
  IF ~id.ok THEN FALSE
  ELSE IF id.byte # MPL3115A2_ID THEN FALSE
  ELSE TRUE

\* MPL3115A2.get_raw_data: the 5-byte read `rd`, then the trigger write
\* `mode`.  A failed read is caught and answered with the neutral (0, 0).
MPL3115A2_get_raw_data(rd, mode) ==
  IF rd = "ok" THEN "data" ELSE "zeros"

\* One transaction on the bus: op on a register, the byte written (0 for a
\* read) and whether it succeeded.
BusOp(op, register, value, ok) ==
  [op |-> op, register |-> register, value |-> value, ok |-> ok]

\* _set_mode_altimeter: one write to CTRL_REG1; its OSError is caught.
set_mode_altimeter(mode) ==
  <<BusOp("write", MPL3115A2_CTRL_REG1, ModeAltimeter, mode = "ok")>>

\* MPL3115A2.init as a call: what it returns and its bus transactions.
MPL3115A2_init_call(id, mode) ==
  [ret |-> MPL3115A2_init(id, mode),
   bus |-> <<BusOp("read", MPL3115A2_WHOAMI, 0, id.ok)>>
           \o (IF id.ok /\ id.byte = MPL3115A2_ID
                 THEN set_mode_altimeter(mode) ELSE <<>>)]

RECURSIVE BitOr(_, _)
\* a | b on non-negative integers of any size.
BitOr(a, b) ==
  IF a = 0 THEN b
  ELSE IF b = 0 THEN a
  ELSE (IF a % 2 = 1 \/ b % 2 = 1 THEN 1 ELSE 0)
       + 2 * BitOr(a \div 2, b \div 2)

RECURSIVE BitAnd(_, _)
\* a & b on non-negative integers of any size.
BitAnd(a, b) ==
  IF a = 0 \/ b = 0 THEN 0
  ELSE (IF a % 2 = 1 /\ b % 2 = 1 THEN 1 ELSE 0)
       + 2 * BitAnd(a \div 2, b \div 2)

\* The pressure bytes assembled least significant byte first.
DecodePressureLittleEndian(data) ==
  BitOr(BitOr(data[3] * 65536, data[2] * 256), data[1]) \div 16

\* (data[0] << 16 | data[1] << 8 | data[2]) >> 4
DecodePressure(data) ==
  BitOr(BitOr(data[1] * 65536, data[2] * 256), data[3]) \div 16

\* (data[3] << 8 | data[4]) >> 4, then |= 0xF000 when bit 0x800 is set.
\* Python integers have no width: the result of the | is not reduced.
DecodeTemperature(data) ==
  LET temp_raw == BitOr(data[4] * 256, data[5]) \div 16
  IN IF BitAnd(temp_raw, 2048) # 0 THEN BitOr(temp_raw, 61440) ELSE temp_raw

\* MPL3115A2.get_raw_data as a call: the read of 5 bytes from OUT_P_MSB
\* (rd, giving data), the trigger write (mode), the decoding.  A failed
\* read leaves the try before the trigger write.
MPL3115A2_get_raw_data_call(rd, data, mode) ==
  IF rd = "ok"
    THEN [ret |-> <<DecodePressure(data), DecodeTemperature(data)>>,
          bus |-> <<BusOp("read", MPL3115A2_OUT_P_MSB, 0, TRUE)>>
                  \o set_mode_altimeter(mode)]
    ELSE [ret |-> <<0, 0>>,
          bus |-> <<BusOp("read", MPL3115A2_OUT_P_MSB, 0, FALSE)>>]

\* ------------------------------------------------------------ ADXL343
\* ADXL343.init: the identity read is inside the try, the two register
\* writes after it are not: their OSError leaves init ("raise").
ADXL343_init(dev, id, power, int) ==
  IF ~id.ok THEN [ret |-> "False", dev |-> dev]
  ELSE IF id.byte # ADXL345_DEVICE_ID THEN [ret |-> "False", dev |-> dev]
  ELSE IF power # "ok" THEN [ret |-> "raise", dev |-> dev]
  ELSE IF int # "ok"
    THEN [ret |-> "raise", dev |-> [dev EXCEPT !.power_ctl = MeasureMode]]
  ELSE [ret |-> "True",
        dev |-> [dev EXCEPT !.power_ctl = MeasureMode, !.int_enable = 0]]

\* V1's ADXL343.init: nothing is in a try.  A failed identity read, a
\* wrong identity (OSError raised at line 45) and a failed write all leave
\* init with an exception; otherwise it returns True.
ADXL343_init_v1(dev, id, power, int) ==
  IF ~id.ok THEN [ret |-> "raise", dev |-> dev]
  ELSE IF id.byte # ADXL345_DEVICE_ID THEN [ret |-> "raise", dev |-> dev]
  ELSE IF power # "ok" THEN [ret |-> "raise", dev |-> dev]
  ELSE IF int # "ok"
    THEN [ret |-> "raise", dev |-> [dev EXCEPT !.power_ctl = MeasureMode]]
  ELSE [ret |-> "True",
        dev |-> [dev EXCEPT !.power_ctl = MeasureMode, !.int_enable = 0]]

\* ADXL343.get_raw_acceleration: a failed read is caught and answered with
\* the neutral (0, 0, 0).
ADXL343_get_raw_acceleration(rd) ==
  IF rd = "ok" THEN "data" ELSE "zeros"

\* ADXL343.enable_motion_detection: three register writes, none of them in
\* a try, then the capability is recorded.  enable_calls counts the calls.
enable_motion_detection(dev, threshold, w1, w2, w3) ==
  LET d0 == [dev EXCEPT !.enable_calls = @ + 1]
      d1 == [d0 EXCEPT !.act_inact_ctl = ActInactCtl]
      d2 == [d1 EXCEPT !.thresh_act = threshold]
      d3 == [d2 EXCEPT !.int_enable = ActivityBit]
  IN IF w1 # "ok" THEN [raised |-> TRUE, dev |-> d0]
     ELSE IF w2 # "ok" THEN [raised |-> TRUE, dev |-> d1]
     ELSE IF w3 # "ok" THEN [raised |-> TRUE, dev |-> d2]
     ELSE [raised |-> FALSE,
           dev |-> [d3 EXCEPT !.enabled_interrupts = @ \cup {"motion"}]]

\* byte & 0x10
AndActivity(byte) == ((byte \div ActivityBit) % 2) * ActivityBit

\* motion_detected with a failed read taken for an event.
motion_detected_fail_true(dev, src) ==
  IF "motion" \in dev.enabled_interrupts
    THEN IF src.ok THEN AndActivity(src.byte) > 0 ELSE TRUE
    ELSE FALSE

\* ADXL343.motion_detected, `src` the outcome of the read of INT_SOURCE.
motion_detected(dev, src) ==
  IF "motion" \in dev.enabled_interrupts
    THEN IF src.ok THEN AndActivity(src.byte) > 0 ELSE FALSE
    ELSE FALSE

\* One register read on the bus (_read_registers) and its outcome.
BusRead(register, rd) == [op |-> "read", register |-> register, ok |-> rd.ok]

\* motion_detected without the test of the capability.
motion_detected_call_unguarded(dev, src) ==
  [ret |-> src.ok /\ AndActivity(src.byte) > 0,
   bus |-> <<BusRead(ADXL345_REG_INT_SOURCE, src)>>]

\* ADXL343.motion_detected as a call: what it returns and the bus
\* transactions it performs.
motion_detected_call(dev, src) ==
  [ret |-> motion_detected(dev, src),
   bus |-> IF "motion" \in dev.enabled_interrupts
             THEN <<BusRead(ADXL345_REG_INT_SOURCE, src)>>
             ELSE <<>>]

\* V1's ADXL343.motion_detected as a call: the read of INT_SOURCE is not
\* in a try, its OSError leaves the method.
motion_detected_v1_call(dev, src) ==
  IF "motion" \in dev.enabled_interrupts
    THEN [raised |-> ~src.ok,
          ret |-> src.ok /\ AndActivity(src.byte) > 0,
          bus |-> <<BusRead(ADXL345_REG_INT_SOURCE, src)>>]
    ELSE [raised |-> FALSE, ret |-> FALSE, bus |-> <<>>]

\* V1's ADXL343.disable_motion_detection: INT_ENABLE is read (rd), written
\* back with the activity bit cleared (w), and the capability is dropped.
\* Neither transaction is in a try.
disable_motion_detection(dev, rd, w) ==
  LET current_int_enable == dev.int_enable
      cleared == current_int_enable - AndActivity(current_int_enable)
  IN IF rd # "ok" THEN [raised |-> TRUE, dev |-> dev]
     ELSE IF w # "ok" THEN [raised |-> TRUE, dev |-> dev]
     ELSE [raised |-> FALSE,
           dev |-> [dev EXCEPT !.int_enable = cleared,
                               !.enabled_interrupts = @ \ {"motion"}]]

\* ------------------------------------------------------------ the log file
RECURSIVE FirstFree(_, _, _)
\* The scan of _prepare_log_file from file_number: os.stat succeeds for the
\* files of fs outside stat_err, and raises OSError for every other name.
FirstFree(file_number, fs, stat_err) ==
  IF file_number \in fs /\ file_number \notin stat_err
    THEN FirstFree(file_number + 1, fs, stat_err)
    ELSE file_number

Header == "time_ms,pressure_raw,temp_raw,accel_x,accel_y,accel_z"

\* _prepare_log_file with the failure of the header write ignored.
PrepareLogFileIgnoreHeader(s, fs, lg, stat_err, open_io, header_io) ==
  LET file_number == FirstFree(1, fs, stat_err)
      s1 == [s EXCEPT !.log_filename = file_number]
      s2 == [s1 EXCEPT !.log_file = "open"]
  IN IF open_io # "ok"
       THEN [ret |-> FALSE, self |-> s1, files |-> fs, log |-> lg]
       ELSE [ret |-> TRUE, self |-> s2, files |-> fs \cup {file_number},
             log |-> [header |-> IF header_io = "ok" THEN Header ELSE "",
                      rows |-> <<>>]]

\* _prepare_log_file: the scan, then open(..., 'w') and the header write.
\* open creates or truncates the file; a failing header write leaves
\* log_file set.
PrepareLogFile(s, fs, lg, stat_err, open_io, header_io) ==
  LET file_number == FirstFree(1, fs, stat_err)
      s1 == [s EXCEPT !.log_filename = file_number]
      s2 == [s1 EXCEPT !.log_file = "open"]
      fs2 == fs \cup {file_number}
  IN IF open_io # "ok"
       THEN [ret |-> FALSE, self |-> s1, files |-> fs, log |-> lg]
     ELSE IF header_io # "ok"
       THEN [ret |-> FALSE, self |-> s2, files |-> fs2,
             log |-> [header |-> "", rows |-> <<>>]]
     ELSE [ret |-> TRUE, self |-> s2, files |-> fs2,
           log |-> [header |-> Header, rows |-> <<>>]]

\* _log_data with the row of a sample whose sensor read failed left out.
LogDataSkipFailedSample(s, lg, current_time, alt_rd, alt_mode, acc_rd, write_io, t) ==
  LET elapsed_time == ticks_diff(current_time, s.state_enter_time)
      sample == [atmosphere |-> MPL3115A2_get_raw_data(alt_rd, alt_mode),
                 acceleration |-> ADXL343_get_raw_acceleration(acc_rd)]
  IN IF alt_rd # "ok" \/ acc_rd # "ok"
       THEN [self |-> s, sample |-> sample, log |-> lg]
     ELSE IF write_io = "ok"
       THEN [self |-> s, sample |-> sample,
             log |-> [lg EXCEPT !.rows = Append(@, elapsed_time)]]
       ELSE [self |-> ChangeState(s, STATE_FAULT, t), sample |-> sample,
             log |-> lg]

\* _log_data(current_time): both sensor reads, then the row is written; an
\* exception of the write changes the state to FAULT at tick t.  Of a row
\* the log keeps time_ms; the sensor fields are `sample`.
LogData(s, lg, current_time, alt_rd, alt_mode, acc_rd, write_io, t) ==
  LET atmosphere == MPL3115A2_get_raw_data(alt_rd, alt_mode)
      acceleration == ADXL343_get_raw_acceleration(acc_rd)
      elapsed_time == ticks_diff(current_time, s.state_enter_time)
      sample == [atmosphere |-> atmosphere, acceleration |-> acceleration]
  IN IF write_io = "ok"
       THEN [self |-> s, sample |-> sample,
             log |-> [lg EXCEPT !.rows = Append(@, elapsed_time)]]
       ELSE [self |-> ChangeState(s, STATE_FAULT, t), sample |-> sample,
             log |-> lg]

\* The rows of the log that a loss of power would not take.  write (line
\* 181) hands a row to the file object; the program never calls flush or
\* sync, so rows are durable only once close (line 189) has returned.
DurableRows == IF self.log_file = "None" THEN Len(log.rows) ELSE 0

\* _close_log_file: close() is not in a try, its OSError leaves the method
\* before log_file is reset.
CloseLogFile(s, close_io) ==
  IF s.log_file # "None"
    THEN IF close_io = "ok"
           THEN [raised |-> FALSE, self |-> [s EXCEPT !.log_file = "None"]]
           ELSE [raised |-> TRUE, self |-> s]
    ELSE [raised |-> FALSE, self |-> s]

\* Line 111 with the next sample scheduled from the current tick.
AdvanceFromNow(next_log_time, current_time) ==
  ticks_add(current_time, log_interval_ms)

\* Line 111: the next sample is due one interval after the last due time.
AdvanceLogTime(next_log_time, current_time) ==
  ticks_add(next_log_time, log_interval_ms)

\* Lines 109-111 as a loop that catches up: a second sample is taken in the
\* same iteration while one is still due.
SampleCatchUp(s, lg, current_time, alt_rd, alt_mode, acc_rd, write_io, t) ==
  LET l1 == LogData(s, lg, current_time, alt_rd, alt_mode, acc_rd,
                    write_io, t)
      s1 == [l1.self EXCEPT
               !.next_log_time = ticks_add(@, log_interval_ms),
               !.firings = @ + 1,
               !.lag = @ - log_interval_ms]
      l2 == LogData(s1, l1.log, current_time, alt_rd, alt_mode, acc_rd,
                    write_io, t)
      s2 == [l2.self EXCEPT
               !.next_log_time = ticks_add(@, log_interval_ms),
               !.firings = @ + 1,
               !.lag = @ - log_interval_ms]
  IN IF ticks_diff(current_time, s1.next_log_time) >= 0
       THEN [self |-> s2, log |-> l2.log]
       ELSE [self |-> s1, log |-> l1.log]

\* Lines 110-111, taken when a sample is due: _log_data, then the due time
\* advances.  firings counts the advances; lag is the true (unwrapped)
\* time from the due time to the tick read at line 108, d1 after the last.
SampleOnce(s, lg, current_time, alt_rd, alt_mode, acc_rd, write_io, t) ==
  LET ld == LogData(s, lg, current_time, alt_rd, alt_mode, acc_rd,
                    write_io, t)
  IN [self |-> [ld.self EXCEPT
                  !.next_log_time = AdvanceLogTime(@, current_time),
                  !.firings = @ + 1,
                  !.lag = @ - log_interval_ms],
      log |-> ld.log]

\* The guard of line 91.
StandbyOver(elapsed_time) == elapsed_time > standby_duration

\* The guard of line 109.
SampleDue(current_time, next_log_time) ==
  ticks_diff(current_time, next_log_time) >= 0

\* The guard of line 113 with the sample interval for the duration.
LoggingOverInterval(elapsed_time) == elapsed_time >= log_interval_ms

\* The guard of line 113.
LoggingOver(elapsed_time) == elapsed_time >= logging_duration_ms

\* ------------------------------------------------------------ behaviour
\* After FlightComputer.__init__: the device registers at their reset
\* values, any set of earlier flights on the filesystem.
\* FlightComputer.__init__ at tick t; first_log_time, firings and lag are
\* the first due time, the number of advances of next_log_time and the
\* unwrapped distance from next_log_time to the tick counter.
NewFlightComputer(t) ==
  [state |-> STATE_BOOT, state_enter_time |-> t,
   log_file |-> "None", log_filename |-> 0, next_log_time |-> 0,
   trail |-> <<>>, first_log_time |-> 0, firings |-> 0, lag |-> 0]

\* ADXL343.__init__ on a device whose INT_ENABLE register holds byte.
NewADXL343(byte) ==
  [enabled_interrupts |-> {}, power_ctl |-> 0, int_enable |-> byte,
   act_inact_ctl |-> 0, thresh_act |-> 0, enable_calls |-> 0]

Init ==
  /\ now \in StartTicks
  /\ self = NewFlightComputer(now)
  /\ accelerometer = NewADXL343(0)
  /\ files \in SUBSET FileNumbers
  /\ log = [header |-> "", rows |-> <<>>]
  /\ pc = "boot"
  /\ obs = NoObs

\* The record of a step of run before its branch fills it in:
\* previous_enter_time is _state_enter_time as the step found it, the entry
\* time of the state the step left if it left one.
StepObs == [NoObs EXCEPT !.previous_enter_time = self.state_enter_time]

\* What _initialize_sensors saw of the altimeter's init.
AltInitIo(alt_id, alt_mode) ==
  [NoInitIo EXCEPT
     !.alt_id = IF ~alt_id.ok THEN "OSError"
                ELSE IF alt_id.byte = MPL3115A2_ID THEN "ok" ELSE "mismatch",
     !.alt_mode = IF alt_id.ok /\ alt_id.byte = MPL3115A2_ID
                    THEN alt_mode ELSE "none"]

\* What _initialize_sensors saw of both inits.
AllInitIo(alt_id, alt_mode, acc_id, acc_power, acc_int) ==
  LET id_ok == acc_id.ok /\ acc_id.byte = ADXL345_DEVICE_ID
  IN [AltInitIo(alt_id, alt_mode) EXCEPT
        !.acc_id = IF ~acc_id.ok THEN "OSError"
                   ELSE IF id_ok THEN "ok" ELSE "mismatch",
        !.acc_power = IF id_ok THEN acc_power ELSE "none",
        !.acc_int = IF id_ok /\ acc_power = "ok" THEN acc_int ELSE "none"]

\* run, up to the loop: _initialize_sensors.  accelerometer.init is not
\* called when altimeter.init returned False (`or` short-circuits).
InitializeSensors ==
  /\ pc = "boot"
  /\ \E alt_id \in IdReads, alt_mode \in IoOutcome, d \in Steps :
       LET alt == MPL3115A2_init(alt_id, alt_mode)
           t == ticks_add(now, d)
       IN IF ~alt
            THEN /\ self' = ChangeState(self, STATE_INIT_FAIL, t)
                 /\ now' = t
                 /\ pc' = "loop"
                 /\ obs' = [StepObs EXCEPT !.branch = "INIT",
                                         !.init = AltInitIo(alt_id, alt_mode)]
                 /\ UNCHANGED accelerometer
            ELSE \E acc_id \in IdReads, acc_power \in IoOutcome,
                    acc_int \in IoOutcome :
                   LET acc == ADXL343_init(accelerometer, acc_id, acc_power,
                                           acc_int)
                   IN /\ accelerometer' = acc.dev
                      /\ obs' = [StepObs EXCEPT
                                   !.branch = "INIT",
                                   !.init = AllInitIo(alt_id, alt_mode, acc_id,
                                                      acc_power, acc_int)]
                      /\ IF acc.ret = "raise"
                           THEN pc' = "crashed" /\ UNCHANGED <<self, now>>
                           ELSE /\ self' = ChangeState(self,
                                             IF acc.ret = "False"
                                               THEN STATE_INIT_FAIL
                                               ELSE STATE_STANDBY, t)
                                /\ now' = t
                                /\ pc' = "loop"
  /\ UNCHANGED <<files, log>>

\* manage_state, the STANDBY branch.  The first iteration follows
\* _initialize_sensors at once (lines 56-59), the later ones a sleep.
ManageStandby ==
  /\ pc = "loop"
  /\ self.state = STATE_STANDBY
  /\ \E d1 \in IF obs.branch = "INIT" THEN Steps ELSE LoopSteps :
       LET t1 == ticks_add(now, d1)
           elapsed_time == ticks_diff(t1, self.state_enter_time)
       IN /\ obs' = [StepObs EXCEPT !.branch = STATE_STANDBY,
                                  !.current_time = t1]
          /\ IF StandbyOver(elapsed_time)
               THEN \E w1 \in IoOutcome :
                    \E w2 \in IF w1 = "ok" THEN IoOutcome ELSE {"none"} :
                    \E w3 \in IF w2 = "ok" THEN IoOutcome ELSE {"none"} :
                    \E d2 \in IF w3 = "ok" THEN Steps ELSE {0} :
                      LET en == enable_motion_detection(
                                  accelerometer, motion_threshold, w1, w2, w3)
                          t2 == ticks_add(t1, d2)
                      IN /\ accelerometer' = en.dev
                         /\ IF en.raised
                              THEN pc' = "crashed" /\ self' = self /\ now' = t1
                              ELSE /\ pc' = pc
                                   /\ self' = ChangeState(self, STATE_ARMED, t2)
                                   /\ now' = t2
               ELSE /\ now' = t1
                    /\ UNCHANGED <<accelerometer, pc, self>>
  /\ UNCHANGED <<files, log>>

\* manage_state, the ARMED branch.  An iteration that detects no motion
\* reads no tick, but the counter runs on through it and the sleep that
\* follows: d1 is the time from the last read, or from the last poll, to
\* this iteration.
ManageArmed ==
  /\ pc = "loop"
  /\ self.state = STATE_ARMED
  /\ \E src \in SourceReads, d1 \in LoopSteps :
       LET motion == motion_detected(accelerometer, src)
           polled == IF ~src.ok THEN "OSError"
                     ELSE IF AndActivity(src.byte) > 0 THEN "set" ELSE "clear"
       IN IF motion
            THEN \E stat_err \in SUBSET files, open_io \in IoOutcome :
                 \E header_io \in IF open_io = "ok"
                                   THEN IoOutcome ELSE {"none"} :
                 \E d2 \in IF header_io = "ok" THEN Steps ELSE {0} :
                   LET prep == PrepareLogFile(self, files, log, stat_err,
                                              open_io, header_io)
                       t1 == ticks_add(now, d1)
                       t2 == ticks_add(t1, d2)
                   IN /\ files' = prep.files
                      /\ log' = prep.log
                      /\ IF prep.ret
                           THEN /\ self' = [ChangeState(prep.self,
                                                        STATE_LOGGING, t1)
                                              EXCEPT !.next_log_time = t2,
                                                     !.first_log_time = t2]
                                /\ now' = t2
                           ELSE /\ self' = ChangeState(prep.self,
                                                       STATE_FAULT, t1)
                                /\ now' = t1
                      /\ obs' = [StepObs EXCEPT
                                   !.branch = STATE_ARMED,
                                   !.polled = polled,
                                   !.previous_polled = obs.polled,
                                   !.motion = TRUE,
                                   !.existing = files,
                                   !.prepare = IF prep.ret THEN "True"
                                               ELSE "False",
                                   !.current_time = now']
            ELSE /\ obs' = [StepObs EXCEPT !.branch = STATE_ARMED,
                                         !.polled = polled,
                                         !.previous_polled = obs.polled]
                 /\ now' = ticks_add(now, d1)
                 /\ UNCHANGED <<self, files, log>>
  /\ UNCHANGED <<accelerometer, pc>>

\* The rest of the LOGGING branch after the sample: s1, lg1, now1 are the
\* object, the file and the clock then.
FinishLogging(s1, lg1, now1, current_time, ob) ==
  LET over == LoggingOver(ticks_diff(current_time, s1.state_enter_time))
  IN /\ log' = lg1
     /\ IF over
          THEN \E close_io \in IF s1.log_file # "None"
                                  THEN IoOutcome ELSE {"none"} :
               \E d3 \in IF close_io # "OSError" THEN Steps ELSE {0} :
                 LET cl == CloseLogFile(s1, close_io)
                     t3 == ticks_add(now1, d3)
                 IN /\ obs' = [ob EXCEPT !.close = IF s1.log_file # "None"
                                                     THEN close_io ELSE "none"]
                    /\ IF cl.raised
                         THEN /\ pc' = "crashed"
                              /\ self' = cl.self
                              /\ now' = now1
                         ELSE /\ pc' = pc
                              /\ self' = ChangeState(cl.self,
                                                     STATE_POST_FLIGHT, t3)
                              /\ now' = t3
          ELSE pc' = pc /\ self' = s1 /\ now' = now1 /\ obs' = ob

\* manage_state, the LOGGING branch.
ManageLogging ==
  /\ pc = "loop"
  /\ self.state = STATE_LOGGING
  /\ \E d1 \in LoopSteps :
       LET current_time == ticks_add(now, d1)
           s0 == [self EXCEPT !.lag = @ + d1]
           ob == [StepObs EXCEPT !.branch = STATE_LOGGING,
                               !.current_time = current_time,
                               !.lag = s0.lag]
       IN IF SampleDue(current_time, self.next_log_time)
            THEN \E alt_rd \in IoOutcome, acc_rd \in IoOutcome,
                    write_io \in IoOutcome :
                 \E alt_mode \in IF alt_rd = "ok"
                                  THEN IoOutcome ELSE {"none"} :
                 \E d2 \in IF write_io # "ok" THEN Steps ELSE {0} :
                   LET t2 == ticks_add(current_time, d2)
                       sm == SampleOnce(s0, log, current_time, alt_rd,
                                        alt_mode, acc_rd, write_io, t2)
                   IN FinishLogging(
                        sm.self, sm.log,
                        IF write_io # "ok" THEN t2 ELSE current_time,
                        current_time,
                        [ob EXCEPT !.fired = TRUE, !.alt = alt_rd,
                                   !.acc = acc_rd, !.write = write_io])
            ELSE FinishLogging(s0, log, current_time, current_time, ob)
  /\ UNCHANGED <<accelerometer, files>>

\* manage_state, the branch of the terminal states: pass.  (The BOOT branch
\* is never taken: _initialize_sensors leaves BOOT, or raises and the loop
\* is not entered.)
ManageTerminal ==
  /\ pc = "loop"
  /\ self.state \in TerminalStates
  /\ obs' = [StepObs EXCEPT !.branch = "TERMINAL"]
  /\ UNCHANGED <<self, accelerometer, now, files, log, pc>>

Next ==
  \/ InitializeSensors
  \/ ManageStandby
  \/ ManageArmed
  \/ ManageLogging
  \/ ManageTerminal

Spec == Init /\ [][Next]_vars

TypeOK ==
  /\ self.state \in FlightStates
  /\ self.state_enter_time \in 0 .. TicksPeriod - 1
  /\ self.next_log_time \in 0 .. TicksPeriod - 1
  /\ self.log_file \in {"None", "open"}
  /\ now \in 0 .. TicksPeriod - 1
  /\ pc \in {"boot", "loop", "crashed"}

\* ------------------------------------------------------------ a running loop
\* Power-on with an empty data directory.
InitLive == Init /\ files = {}

\* The flight computer whose loop keeps running: an iteration that can be
\* taken is taken.
SpecLive == InitLive /\ [][Next]_vars /\ WF_vars(Next)

\* ------------------------------------------------------------ V1's logging loop
\* V1's data logging loop (V1 main.py lines 125-156), from the moment
\* motion was detected, at any value of the tick counter.  self is the
\* loop's variables: lag is the true (unwrapped) time from the due time to
\* the tick counter, firings the number of samples taken.  Between two
\* iterations the loop sleeps 10 microseconds, so an iteration may find the
\* counter where the last one left it.
V1Header == "Time,Pressure_Raw,Temperature_Raw,Accel_X_Raw,Accel_Y_Raw,Accel_Z_Raw"

NoV1Obs ==
  [branch |-> "none", current_time |-> 0, fired |-> FALSE, lag |-> 0,
   tick_value |-> TRUE]

\* Whether v is a value of the tick counter.
IsTickValue(v) == v \in 0 .. TicksPeriod - 1

\* The guard of V1 line 143.  time.ticks_diff is defined on values of the
\* tick counter; on another integer its result is `undefined`.
V1SampleDue(current_time_ms, next_sample_time_ms, undefined) ==
  IF IsTickValue(next_sample_time_ms)
    THEN ticks_diff(current_time_ms, next_sample_time_ms) >= 0
    ELSE undefined

\* The guard of V1 line 140.
V1LoggingContinues(elapsed_time_ms) == elapsed_time_ms < logging_duration_ms

InitV1Log ==
  /\ now \in 0 .. TicksPeriod - 1
  /\ self = [start_time_ms |-> 0, next_sample_time_ms |-> 0, lag |-> 0,
             firings |-> 0]
  /\ accelerometer = NewADXL343(0)
  /\ files = {}
  /\ log = [header |-> "", rows |-> <<>>]
  /\ pc = "v1_start"
  /\ obs = NoV1Obs

\* V1 lines 129-137: the start time is read, the first due time is the
\* start time plus the interval by plain addition (line 132), the file is
\* opened and the header written.  An OSError of the file ends the script.
V1StartLogging ==
  /\ pc = "v1_start"
  /\ \E d \in Steps, open_io \in IoOutcome :
     \E header_io \in IF open_io = "ok" THEN IoOutcome ELSE {"none"} :
       LET start_time_ms == ticks_add(now, d)
       IN /\ now' = start_time_ms
          /\ self' = [self EXCEPT
                        !.start_time_ms = start_time_ms,
                        !.next_sample_time_ms =
                           start_time_ms + log_interval_ms,
                        !.lag = 0 - log_interval_ms]
          /\ obs' = [NoV1Obs EXCEPT !.branch = "V1_START",
                                    !.current_time = start_time_ms]
          /\ IF header_io = "ok"
               THEN /\ pc' = "v1_loop"
                    /\ log' = [header |-> V1Header, rows |-> <<>>]
               ELSE pc' = "crashed" /\ log' = log
  /\ UNCHANGED <<accelerometer, files>>

\* V1 lines 140-156: one iteration of the loop.  d0 and d1 are the time to
\* the reads of lines 140 and 141.  V1's drivers catch nothing: a failed
\* sensor read or write ends the script.  time.ticks_add of a value that is
\* no tick value gives some tick value.  When the condition of line 140 is
\* false the with statement of line 135 closes the file; an OSError of that
\* close ends the script as well.
V1LogIteration ==
  /\ pc = "v1_loop"
  /\ \E d0 \in Steps :
       LET t0 == ticks_add(now, d0)
       IN IF V1LoggingContinues(ticks_diff(t0, self.start_time_ms))
            THEN \E d1 \in Steps :
                 \E undefined \in IF IsTickValue(self.next_sample_time_ms)
                                    THEN {FALSE} ELSE BOOLEAN :
                   LET current_time_ms == ticks_add(t0, d1)
                       lag == self.lag + d0 + d1
                       due == V1SampleDue(current_time_ms,
                                          self.next_sample_time_ms, undefined)
                   IN /\ now' = current_time_ms
                      /\ obs' = [NoV1Obs EXCEPT
                                   !.branch = "V1_LOGGING",
                                   !.current_time = current_time_ms,
                                   !.fired = due,
                                   !.lag = lag,
                                   !.tick_value =
                                      IsTickValue(self.next_sample_time_ms)]
                      /\ IF due
                           THEN \E alt_rd \in IoOutcome :
                                \E acc_rd \in IF alt_rd = "ok"
                                                THEN IoOutcome ELSE {"none"} :
                                \E write_io \in IF acc_rd = "ok"
                                                  THEN IoOutcome
                                                  ELSE {"none"} :
                                \E next \in
                                     IF IsTickValue(self.next_sample_time_ms)
                                       THEN {ticks_add(
                                               self.next_sample_time_ms,
                                               log_interval_ms)}
                                       ELSE 0 .. TicksPeriod - 1 :
                                  IF write_io = "ok"
                                    THEN /\ pc' = pc
                                         /\ log' = [log EXCEPT !.rows =
                                              Append(@, ticks_diff(
                                                current_time_ms,
                                                self.start_time_ms))]
                                         /\ self' = [self EXCEPT
                                              !.next_sample_time_ms = next,
                                              !.firings = @ + 1,
                                              !.lag = lag - log_interval_ms]
                                    ELSE /\ pc' = "crashed"
                                         /\ log' = log
                                         /\ self' = [self EXCEPT !.lag = lag]
                           ELSE /\ pc' = pc
                                /\ log' = log
                                /\ self' = [self EXCEPT !.lag = lag]
            ELSE \E close_io \in IoOutcome :
                 /\ now' = t0
                 /\ pc' = IF close_io = "ok" THEN "v1_done" ELSE "crashed"
                 /\ self' = [self EXCEPT !.lag = @ + d0]
                 /\ log' = log
                 /\ obs' = [NoV1Obs EXCEPT !.branch = "V1_DONE",
                                           !.current_time = t0]
  /\ UNCHANGED <<accelerometer, files>>

NextV1Log ==
  \/ V1StartLogging
  \/ V1LogIteration

SpecV1Log == InitV1Log /\ [][NextV1Log]_vars

\* ------------------------------------------------------------ the driver alone
\* The accelerometer driver called directly, its public methods in any
\* order, on a device whose INT_ENABLE register holds any byte.  obs is the
\* last call: before is INT_ENABLE at its start, pre_enable is INT_ENABLE
\* at the start of the enable call when the call before was a completed
\* enable, source is what the read of INT_SOURCE gave (or would have given).
Bytes == 0 .. 255

NoCall ==
  [call |-> "none", raised |-> FALSE, ret |-> FALSE, bus |-> <<>>,
   armed |-> FALSE, before |-> 0, after_enable |-> FALSE, pre_enable |-> 0,
   source |-> ReadFailed]

\* What every call records of the driver at its start.
CallOf(name) ==
  [NoCall EXCEPT !.call = name,
                 !.armed = "motion" \in accelerometer.enabled_interrupts,
                 !.before = accelerometer.int_enable]

InitAccel ==
  /\ now = 0
  /\ self = NewFlightComputer(now)
  /\ accelerometer \in {NewADXL343(byte) : byte \in Bytes}
  /\ files = {}
  /\ log = [header |-> "", rows |-> <<>>]
  /\ pc = "driver"
  /\ obs = NoCall

\* V2: init().
CallAccelInit ==
  /\ pc = "driver"
  /\ \E id \in IdReads :
     \E power \in IF id = Read(ADXL345_DEVICE_ID)
                    THEN IoOutcome ELSE {"none"} :
     \E int \in IF power = "ok" THEN IoOutcome ELSE {"none"} :
       LET acc == ADXL343_init(accelerometer, id, power, int)
       IN /\ accelerometer' = acc.dev
          /\ obs' = [CallOf("init") EXCEPT !.raised = acc.ret = "raise",
                                           !.ret = acc.ret = "True"]
  /\ UNCHANGED <<self, now, files, log, pc>>

\* V2: enable_motion_detection(threshold=motion_threshold).
CallEnable ==
  /\ pc = "driver"
  /\ accelerometer.enable_calls < MaxCalls
  /\ \E w1 \in IoOutcome :
     \E w2 \in IF w1 = "ok" THEN IoOutcome ELSE {"none"} :
     \E w3 \in IF w2 = "ok" THEN IoOutcome ELSE {"none"} :
       LET en == enable_motion_detection(accelerometer, motion_threshold,
                                         w1, w2, w3)
       IN /\ accelerometer' = en.dev
          /\ obs' = [CallOf("enable") EXCEPT !.raised = en.raised]
  /\ UNCHANGED <<self, now, files, log, pc>>

\* V2: motion_detected().
CallMotionDetected ==
  /\ pc = "driver"
  /\ \E src \in SourceReads :
       LET md == motion_detected_call(accelerometer, src)
       IN obs' = [CallOf("motion_detected") EXCEPT !.ret = md.ret,
                                                   !.bus = md.bus,
                                                   !.source = src]
  /\ UNCHANGED <<self, accelerometer, now, files, log, pc>>

\* The public methods of V2's ADXL343 that change or read the interrupt
\* configuration.
NextAccel ==
  \/ CallAccelInit
  \/ CallEnable
  \/ CallMotionDetected

SpecAccel == InitAccel /\ [][NextAccel]_vars

\* ------------------------------------------------------------ V1's driver alone
\* V1's ADXL343, which has disable_motion_detection and catches no OSError.
InitAccelV1 ==
  /\ now = 0
  /\ self = NewFlightComputer(now)
  /\ accelerometer \in {NewADXL343(byte) : byte \in Bytes}
  /\ files = {}
  /\ log = [header |-> "", rows |-> <<>>]
  /\ pc = "driver_v1"
  /\ obs = NoCall

\* V1: init().
CallInitV1 ==
  /\ pc = "driver_v1"
  /\ \E id \in IdReads :
     \E power \in IF id = Read(ADXL345_DEVICE_ID)
                    THEN IoOutcome ELSE {"none"} :
     \E int \in IF power = "ok" THEN IoOutcome ELSE {"none"} :
       LET acc == ADXL343_init_v1(accelerometer, id, power, int)
       IN /\ accelerometer' = acc.dev
          /\ obs' = [CallOf("init") EXCEPT !.raised = acc.ret = "raise",
                                           !.ret = acc.ret = "True"]
  /\ UNCHANGED <<self, now, files, log, pc>>

\* V1: enable_motion_detection(threshold=motion_threshold); the method is
\* V2's statement for statement.
CallEnableV1 ==
  /\ pc = "driver_v1"
  /\ accelerometer.enable_calls < MaxCalls
  /\ \E w1 \in IoOutcome :
     \E w2 \in IF w1 = "ok" THEN IoOutcome ELSE {"none"} :
     \E w3 \in IF w2 = "ok" THEN IoOutcome ELSE {"none"} :
       LET en == enable_motion_detection(accelerometer, motion_threshold,
                                         w1, w2, w3)
       IN /\ accelerometer' = en.dev
          /\ obs' = [CallOf("enable") EXCEPT !.raised = en.raised]
  /\ UNCHANGED <<self, now, files, log, pc>>

\* V1: disable_motion_detection().
CallDisable ==
  /\ pc = "driver_v1"
  /\ \E rd \in IoOutcome :
     \E w \in IF rd = "ok" THEN IoOutcome ELSE {"none"} :
       LET dis == disable_motion_detection(accelerometer, rd, w)
       IN /\ accelerometer' = dis.dev
          /\ obs' = [CallOf("disable") EXCEPT
                       !.raised = dis.raised,
                       !.after_enable = obs.call = "enable" /\ ~obs.raised,
                       !.pre_enable = obs.before]
  /\ UNCHANGED <<self, now, files, log, pc>>

\* V1: motion_detected().
CallMotionDetectedV1 ==
  /\ pc = "driver_v1"
  /\ \E src \in SourceReads :
       LET md == motion_detected_v1_call(accelerometer, src)
       IN obs' = [CallOf("motion_detected") EXCEPT !.raised = md.raised,
                                                   !.ret = md.ret,
                                                   !.bus = md.bus,
                                                   !.source = src]
  /\ UNCHANGED <<self, accelerometer, now, files, log, pc>>

\* The public methods of V1's ADXL343 that change or read the interrupt
\* configuration.
NextAccelV1 ==
  \/ CallInitV1
  \/ CallEnableV1
  \/ CallDisable
  \/ CallMotionDetectedV1

SpecAccelV1 == InitAccelV1 /\ [][NextAccelV1]_vars

\* ------------------------------------------------------------ the altimeter alone
\* The altimeter driver called directly, in any order.  obs is the last
\* call with the bytes the device delivered and what the call returned;
\* obs.bus is every bus transaction so far, obs.calls their number of calls.
\* Data bytes around the sign bit of the temperature and the bits the
\* shift by 4 drops.
PressureBytes == {<<0, 0, 0>>, <<0, 1, 16>>, <<255, 255, 255>>}
TemperatureBytes == {0, 1, 127, 128, 129, 255} \X {0, 15, 16, 255}
DataBytes == {p \o t : p \in PressureBytes, t \in TemperatureBytes}

NoAltCall ==
  [call |-> "none", calls |-> 0, bus |-> <<>>, read_ok |-> FALSE,
   data |-> <<0, 0, 0, 0, 0>>, ret |-> <<0, 0>>, init_ret |-> FALSE]

InitAlt ==
  /\ now = 0
  /\ self = NewFlightComputer(now)
  /\ accelerometer = NewADXL343(0)
  /\ files = {}
  /\ log = [header |-> "", rows |-> <<>>]
  /\ pc = "driver"
  /\ obs = NoAltCall

CallInit ==
  /\ pc = "driver"
  /\ obs.calls < MaxCalls
  /\ \E id \in IdReads :
       IF id.ok /\ id.byte = MPL3115A2_ID
         THEN \E mode \in IoOutcome :
                LET c == MPL3115A2_init_call(id, mode)
                IN obs' = [NoAltCall EXCEPT !.call = "init",
                                            !.calls = obs.calls + 1,
                                            !.bus = obs.bus \o c.bus,
                                            !.init_ret = c.ret]
         ELSE LET c == MPL3115A2_init_call(id, "ok")
              IN obs' = [NoAltCall EXCEPT !.call = "init",
                                          !.calls = obs.calls + 1,
                                          !.bus = obs.bus \o c.bus,
                                          !.init_ret = c.ret]
  /\ UNCHANGED <<self, accelerometer, now, files, log, pc>>

CallGetRawData ==
  /\ pc = "driver"
  /\ obs.calls < MaxCalls
  /\ \E rd \in IoOutcome :
       IF rd = "ok"
         THEN \E data \in DataBytes, mode \in IoOutcome :
                LET c == MPL3115A2_get_raw_data_call(rd, data, mode)
                IN obs' = [NoAltCall EXCEPT !.call = "get_raw_data",
                                            !.calls = obs.calls + 1,
                                            !.bus = obs.bus \o c.bus,
                                            !.read_ok = TRUE,
                                            !.data = data,
                                            !.ret = c.ret]
         ELSE LET c == MPL3115A2_get_raw_data_call(rd, NoAltCall.data, "ok")
              IN obs' = [NoAltCall EXCEPT !.call = "get_raw_data",
                                          !.calls = obs.calls + 1,
                                          !.bus = obs.bus \o c.bus,
                                          !.ret = c.ret]
  /\ UNCHANGED <<self, accelerometer, now, files, log, pc>>

NextAlt ==
  \/ CallInit
  \/ CallGetRawData

SpecAlt == InitAlt /\ [][NextAlt]_vars

\* ------------------------------------------------------------ pressure decoding
\* The pressure decoding of get_raw_data applied to two reads a and b of
\* the three pressure bytes; pa and pb are the decoded values.
PressureInputs == {0, 1, 255} \X {0, 1, 255} \X {0, 1, 15, 16, 255}

InitPressure ==
  /\ now = 0
  /\ self = NewFlightComputer(now)
  /\ accelerometer = NewADXL343(0)
  /\ files = {}
  /\ log = [header |-> "", rows |-> <<>>]
  /\ pc = "driver"
  /\ obs \in {[call |-> "none", a |-> a, b |-> b, pa |-> 0, pb |-> 0] :
                a \in PressureInputs, b \in PressureInputs}

DecodePair ==
  /\ pc = "driver"
  /\ obs.call = "none"
  /\ obs' = [obs EXCEPT !.call = "decode",
                        !.pa = DecodePressure(obs.a \o <<0, 0>>),
                        !.pb = DecodePressure(obs.b \o <<0, 0>>)]
  /\ UNCHANGED <<self, accelerometer, now, files, log, pc>>

NextPressure == DecodePair

SpecPressure == InitPressure /\ [][NextPressure]_vars

\* ------------------------------------------------------------ history
\* The states the machine has been in, oldest first.
Visited ==
  <<STATE_BOOT>> \o [i \in 1 .. Len(self.trail) |-> self.trail[i].state]

\* The tick at which the state before the current one was entered.
PreviousEnter == obs.previous_enter_time

\* The last step was a loop iteration that began in state st.
Ran(st) == obs.branch = st

\* ------------------------------------------------------------ claims
\* C1: terminal states are absorbing.  Once a _change_state call has
\* entered FAULT, INIT_FAIL or POST_FLIGHT, no later call (in the same
\* iteration or a later one) changes the state: a terminal state is the
\* last entry of the history and the current state.
C1_TerminalAbsorbing ==
  /\ self.state = Visited[Len(Visited)]
  /\ \A i \in 1 .. Len(Visited) :
       Visited[i] \in TerminalStates => i = Len(Visited)

\* C1 witness: a write failed in a LOGGING iteration whose current_time is
\* at or past the logging duration; FAULT was entered in mid-iteration and
\* the duration check that followed left it alone.
C1_Witness ==
  /\ Ran(STATE_LOGGING)
  /\ obs.write = "OSError"
  /\ self.state = STATE_FAULT
  /\ ticks_diff(obs.current_time, PreviousEnter) >= logging_duration_ms

AllowedTransitions ==
  {<<STATE_BOOT, STATE_STANDBY>>, <<STATE_BOOT, STATE_INIT_FAIL>>,
   <<STATE_STANDBY, STATE_ARMED>>, <<STATE_ARMED, STATE_LOGGING>>,
   <<STATE_ARMED, STATE_FAULT>>, <<STATE_LOGGING, STATE_POST_FLIGHT>>,
   <<STATE_LOGGING, STATE_FAULT>>}

\* C2: every state change is one of the seven forward transitions, and no
\* state is entered twice.
C2_ForwardOnly ==
  /\ self.state = Visited[Len(Visited)]
  /\ \A i \in 1 .. Len(Visited) - 1 :
       <<Visited[i], Visited[i + 1]>> \in AllowedTransitions
  /\ \A i \in 1 .. Len(Visited) : \A j \in 1 .. Len(Visited) :
       Visited[i] = Visited[j] => i = j

\* C2 witness: a complete flight, BOOT to POST_FLIGHT.
C2_Witness ==
  Visited = <<STATE_BOOT, STATE_STANDBY, STATE_ARMED, STATE_LOGGING,
              STATE_POST_FLIGHT>>

\* C3 (as claimed): at the end of every loop iteration log_file is set if
\* and only if the state is LOGGING.
C3_FileOpenIffLogging ==
  (pc = "loop" /\ obs.branch \notin {"none", "INIT"})
    => (self.log_file # "None" <=> self.state = STATE_LOGGING)

\* C4 (as claimed): a LOGGING iteration in which a sample read or the row
\* write failed ends in FAULT with the log file closed.
C4_FailureFaultsAndCloses ==
  (/\ Ran(STATE_LOGGING)
   /\ pc = "loop"
   /\ \/ obs.alt = "OSError"
      \/ obs.acc = "OSError"
      \/ obs.write = "OSError")
    => (self.state = STATE_FAULT /\ self.log_file = "None")

\* C5 (as claimed): a LOGGING iteration in which a sensor's sample read
\* failed ends in FAULT, and no row was written for that sample.
C5_SensorFailureEscalates ==
  (/\ Ran(STATE_LOGGING)
   /\ pc = "loop"
   /\ (obs.alt = "OSError" \/ obs.acc = "OSError"))
    => (self.state = STATE_FAULT /\ obs.write # "ok")

\* Every transaction of both inits was made and succeeded.
InitAllOk ==
  /\ obs.init.alt_id = "ok"
  /\ obs.init.alt_mode = "ok"
  /\ obs.init.acc_id = "ok"
  /\ obs.init.acc_power = "ok"
  /\ obs.init.acc_int = "ok"

\* C6 (as claimed): after _initialize_sensors the state is STANDBY if every
\* transaction of both inits succeeded and INIT_FAIL otherwise; never BOOT.
C6_InitOutcome ==
  Ran("INIT") =>
    /\ self.state # STATE_BOOT
    /\ self.state = IF InitAllOk THEN STATE_STANDBY ELSE STATE_INIT_FAIL

\* The elapsed time in STANDBY that the last STANDBY iteration saw.
StandbyElapsed ==
  ticks_diff(obs.current_time,
             IF self.state = STATE_STANDBY THEN self.state_enter_time
             ELSE PreviousEnter)

\* C7 (as claimed): a STANDBY iteration that sees an elapsed time below the
\* standby duration leaves the state STANDBY and motion detection unarmed;
\* one that sees an elapsed time at or after it ends in ARMED, with
\* enable_motion_detection called exactly once.
C7_StandbyArmsAtDuration ==
  Ran(STATE_STANDBY) =>
    IF StandbyElapsed < standby_duration
      THEN /\ self.state = STATE_STANDBY
           /\ accelerometer.enable_calls = 0
           /\ "motion" \notin accelerometer.enabled_interrupts
      ELSE /\ self.state = STATE_ARMED
           /\ accelerometer.enable_calls = 1

\* C8: an ARMED iteration changes the state only if the poll read the
\* activity bit set (motion_detected returned true).  If the log file was
\* prepared the state is LOGGING, log_file is set, the file holds the
\* header and no row, and next_log_time is the tick read last; if not the
\* state is FAULT.  A FAULT entered from ARMED is never followed or
\* preceded by LOGGING.
C8_ArmedLeavesOnMotion ==
  /\ Ran(STATE_ARMED) =>
       /\ self.state # STATE_ARMED => (obs.motion /\ obs.polled = "set")
       /\ obs.motion =>
            IF obs.prepare = "True"
              THEN /\ self.state = STATE_LOGGING
                   /\ self.log_file = "open"
                   /\ log = [header |-> Header, rows |-> <<>>]
                   /\ self.log_filename \in files
                   /\ self.next_log_time = now
                   /\ ticks_diff(self.next_log_time,
                                 self.state_enter_time) \in Steps
              ELSE /\ obs.prepare = "False"
                   /\ self.state = STATE_FAULT
  /\ \A i \in 1 .. Len(Visited) - 1 :
       (Visited[i] = STATE_ARMED /\ Visited[i + 1] = STATE_FAULT)
         => \A j \in 1 .. Len(Visited) : Visited[j] # STATE_LOGGING

\* C8 witness: motion was detected and the file prepared.
C8_Witness ==
  /\ Ran(STATE_ARMED)
  /\ obs.polled = "set"
  /\ obs.prepare = "True"
  /\ self.state = STATE_LOGGING

\* C9: an ARMED iteration whose poll of INT_SOURCE fails changes nothing:
\* motion_detected returns false, the state stays ARMED, no file is
\* created.  An ARMED iteration whose poll reads the activity bit set
\* leaves ARMED, for LOGGING when the file is prepared, whatever the polls
\* before it did.
C9_PollFailureIsNoEvent ==
  [][/\ (obs'.branch = STATE_ARMED /\ obs'.polled = "OSError")
          => /\ ~obs'.motion
             /\ self'.state = STATE_ARMED
             /\ UNCHANGED <<self, files, log, accelerometer, pc>>
     /\ (self.state = STATE_ARMED /\ obs'.branch = STATE_ARMED
          /\ obs'.polled = "set")
          => /\ obs'.motion
             /\ self'.state = IF obs'.prepare = "True" THEN STATE_LOGGING
                              ELSE STATE_FAULT]_vars

\* C9 witness: the poll of the iteration before failed and left the
\* machine ARMED; this iteration's poll read the activity bit and the
\* machine is LOGGING.
C9_Witness ==
  /\ Ran(STATE_ARMED)
  /\ obs.previous_polled = "OSError"
  /\ obs.polled = "set"
  /\ self.state = STATE_LOGGING

\* The elapsed time in LOGGING that the last LOGGING iteration saw, when
\* that iteration left LOGGING.
LoggingElapsedOnLeaving == ticks_diff(obs.current_time, PreviousEnter)

\* C10: a LOGGING iteration ends in POST_FLIGHT only if it saw an elapsed
\* time at or after the logging duration, and the file was closed when
\* POST_FLIGHT was entered; an iteration that leaves LOGGING with less
\* elapsed ends in FAULT after a failed write.
C10_LoggingLeaves ==
  /\ (Ran(STATE_LOGGING) /\ self.state = STATE_POST_FLIGHT)
       => /\ LoggingElapsedOnLeaving >= logging_duration_ms
          /\ self.log_file = "None"
  /\ \A i \in 1 .. Len(self.trail) :
       self.trail[i].state = STATE_POST_FLIGHT => ~self.trail[i].file_open
  /\ (/\ Ran(STATE_LOGGING)
      /\ self.state # STATE_LOGGING
      /\ LoggingElapsedOnLeaving < logging_duration_ms)
       => (self.state = STATE_FAULT /\ obs.write = "OSError")

\* C10 witness: the duration elapsed and the iteration closed the file and
\* entered POST_FLIGHT.
C10_Witness ==
  /\ Ran(STATE_LOGGING)
  /\ self.state = STATE_POST_FLIGHT
  /\ obs.close = "ok"
  /\ LoggingElapsedOnLeaving >= logging_duration_ms

\* C11: in POST_FLIGHT the log file is closed and holds as many rows as
\* next_log_time was advanced, in firing order (time_ms never decreases
\* from one row to the next).
C11_RowsEqualFirings ==
  self.state = STATE_POST_FLIGHT =>
    /\ self.log_file = "None"
    /\ Len(log.rows) = self.firings
    /\ \A i \in 1 .. Len(log.rows) - 1 : log.rows[i] <= log.rows[i + 1]

\* C11 witness: POST_FLIGHT after a flight in which a sample with a failed
\* sensor read was among several fired.
C11_Witness ==
  /\ self.state = STATE_POST_FLIGHT
  /\ Ran(STATE_LOGGING)
  /\ obs.fired
  /\ obs.alt = "OSError"
  /\ self.firings >= 2

\* C12: next_log_time is its first value plus firings times the interval,
\* modulo the counter's period, whatever the iterations' delays were.
C12_NoDrift ==
  self.next_log_time =
    ticks_add(self.first_log_time, self.firings * log_interval_ms)

\* C12 witness: a second or later sample fired late (the tick read was past
\* the due time).
C12_Witness ==
  /\ Ran(STATE_LOGGING)
  /\ obs.fired
  /\ obs.lag > 0
  /\ self.firings >= 2

\* C13: one LOGGING iteration appends at most one row and advances
\* next_log_time by at most one interval, however far behind the loop is.
C13_OneSamplePerIteration ==
  [][self.state = STATE_LOGGING =>
       /\ Len(log'.rows) <= Len(log.rows) + 1
       /\ self'.firings <= self.firings + 1
       /\ self'.next_log_time \in
            {self.next_log_time,
             ticks_add(self.next_log_time, log_interval_ms)}]_vars

\* C13 witness: an iteration began two intervals or more behind, fired, and
\* is still an interval or more behind.
C13_Witness ==
  /\ Ran(STATE_LOGGING)
  /\ obs.fired
  /\ obs.lag >= 2 * log_interval_ms
  /\ self.lag = obs.lag - log_interval_ms
  /\ self.lag >= log_interval_ms

\* C14: an iteration of a logging loop (V2's LOGGING branch, V1's data
\* logging loop) takes a sample exactly when the true time from the due
\* time to the tick read is not negative, across wraps of the counter and
\* for the first due time.
C14_DueIsWrapSafe ==
  (Ran(STATE_LOGGING) \/ Ran("V1_LOGGING")) =>
    (obs.fired <=> obs.lag >= 0)

\* C20: _prepare_log_file selects the smallest number from 1 whose file
\* does not exist, and the name it opens for writing did not exist, whatever
\* os.stat answered (obs.existing is the directory before the call).
C20_SmallestFreeNeverExisting ==
  (obs.branch = STATE_ARMED /\ obs.motion) =>
    /\ self.log_filename \notin obs.existing
    /\ \A n \in 1 .. self.log_filename - 1 : n \in obs.existing

\* C15: enable_motion_detection followed by disable_motion_detection, both
\* completed, leaves INT_ENABLE at the value it had before the enable, for
\* every such value.
C15_EnableDisableRestores ==
  (obs.call = "disable" /\ ~obs.raised /\ obs.after_enable) =>
    accelerometer.int_enable = obs.pre_enable

\* before | 0x10
OrActivity(byte) == byte - AndActivity(byte) + ActivityBit

\* C16: a completed enable_motion_detection leaves INT_ENABLE at its value
\* before the call with the activity bit set (every other bit as before),
\* and 'motion' is in the capability set.
C16_EnableChangesOnlyActivityBit ==
  (obs.call = "enable" /\ ~obs.raised) =>
    /\ accelerometer.int_enable = OrActivity(obs.before)
    /\ "motion" \in accelerometer.enabled_interrupts

\* C17: motion_detected without the 'motion' capability returns False and
\* performs no bus transaction; with it, it performs one read of INT_SOURCE
\* and returns whether the byte read has bit 0x10 set (False when the read
\* failed).
C17_MotionDetectedBus ==
  obs.call = "motion_detected" =>
    IF obs.armed
      THEN /\ Len(obs.bus) = 1
           /\ obs.bus[1].op = "read"
           /\ obs.bus[1].register = ADXL345_REG_INT_SOURCE
           /\ obs.ret = (obs.source.ok /\ AndActivity(obs.source.byte) > 0)
      ELSE /\ obs.bus = <<>>
           /\ obs.ret = FALSE

\* C17 witness: motion_detected on a driver without the capability while
\* INT_SOURCE has the activity bit latched.
C17_Witness ==
  /\ obs.call = "motion_detected"
  /\ ~obs.armed
  /\ obs.source.ok
  /\ AndActivity(obs.source.byte) > 0
  /\ obs.bus = <<>>

\* C18: the temperature get_raw_data returns is the 12-bit
\* two's-complement reading of the shifted value: negative when bit 11 is
\* set, in 0 .. 2047 when it is clear.
C18_TemperatureIsTwosComplement ==
  (obs.call = "get_raw_data" /\ obs.read_ok) =>
    LET shifted == (obs.data[4] * 256 + obs.data[5]) \div 16
        temp_raw == obs.ret[2]
    IN IF shifted >= 2048
         THEN temp_raw < 0 /\ temp_raw = shifted - 4096
         ELSE temp_raw \in 0 .. 2047 /\ temp_raw = shifted

\* Transaction i of the bus history is a read of the data registers.
IsDataRead(i) ==
  obs.bus[i].op = "read" /\ obs.bus[i].register = MPL3115A2_OUT_P_MSB

\* Transaction i of the bus history is the write init made to CTRL_REG1.
IsTrigger(i) ==
  /\ obs.bus[i].op = "write"
  /\ obs.bus[i].register = MPL3115A2_CTRL_REG1
  /\ obs.bus[i].value = ModeAltimeter

\* C19: every read of the data registers is followed at once, before any
\* other transaction, by the write to CTRL_REG1 of the byte init writes.
C19_TriggerAfterEveryRead ==
  \A i \in 1 .. Len(obs.bus) :
    IsDataRead(i) => i < Len(obs.bus) /\ IsTrigger(i + 1)

\* C21: while LOGGING, the rows appended and not yet durably written are
\* never more than the buffer size threshold.
C21_UnsyncedRowsBounded ==
  self.state = STATE_LOGGING =>
    Len(log.rows) - DurableRows <= buffer_threshold

\* Three bytes read as a 24-bit big-endian number.
Raw24(bytes) == bytes[1] * 65536 + bytes[2] * 256 + bytes[3]

\* C22 as stated: of two inputs a < b (as 24-bit big-endian numbers) the
\* decoded pressure of b is greater than that of a.
C22_StrictlyMonotonic ==
  (obs.call = "decode" /\ Raw24(obs.a) < Raw24(obs.b)) => obs.pa < obs.pb

\* C22 amended: of two inputs a < b the decoded pressure of b is not less
\* than that of a, and it is greater when a and b differ above the four
\* bits the shift drops.
C22_MonotonicInTop20Bits ==
  (obs.call = "decode" /\ Raw24(obs.a) < Raw24(obs.b)) =>
    /\ obs.pa <= obs.pb
    /\ (Raw24(obs.a) \div 16 < Raw24(obs.b) \div 16 => obs.pa < obs.pb)

\* C22 witness: two inputs a < b that differ only in the four dropped bits
\* decode to the same pressure.
C22_Witness ==
  /\ obs.call = "decode"
  /\ Raw24(obs.a) < Raw24(obs.b)
  /\ obs.pa = obs.pb
  /\ obs.pa > 0

\* C23: a manage_state iteration in which a bus transaction failed ends
\* without an uncaught error, in a state of the machine.  (The one other
\* operation that can raise in an iteration is the file's close.)
C23_BusFailureNeverAborts ==
  (obs.branch \in {STATE_STANDBY, STATE_ARMED, STATE_LOGGING}
     /\ obs.close # "OSError") =>
    /\ pc = "loop"
    /\ self.state \in FlightStates

\* C24: with the loop running and the clock advancing, a machine in
\* STANDBY comes to ARMED and a machine in LOGGING comes to POST_FLIGHT or
\* FAULT, unless an uncaught exception ends the loop (pc = "crashed": the
\* iterations do not keep running).
C24_TimedStatesAreLeft ==
  /\ (self.state = STATE_STANDBY /\ pc = "loop")
       ~> (self.state = STATE_ARMED \/ pc = "crashed")
  /\ (self.state = STATE_LOGGING /\ pc = "loop")
       ~> (self.state \in {STATE_POST_FLIGHT, STATE_FAULT} \/ pc = "crashed")

\* C24 witness: LOGGING was left for POST_FLIGHT after the tick counter
\* wrapped during it (the counter read is below the entry time).
C24_Witness ==
  /\ self.state = STATE_POST_FLIGHT
  /\ Ran(STATE_LOGGING)
  /\ obs.current_time < PreviousEnter

====
